---- MODULE Spec2Model ----
(***************************************************************************)
(* Actuator-control and command-protocol runtime of the motion controller  *)
(* firmware (firmware/microcontroller/src).  The registries are the        *)
(* std::vector globals of config.cpp, the handlers are handleServoMessage  *)
(* (hardware/servo.cpp) and handleStepperMessage / handlePinMessage        *)
(* (message_handler.cpp), the periodic updates are updatePinValues,        *)
(* updateStepperPositions and updateServoActionStatus.                     *)
(***************************************************************************)
EXTENDS Integers, Sequences, FiniteSets, TLC

VARIABLES
  configuredPins,      \* std::vector<IoPinConfig>
  configuredServos,    \* std::vector<ServoConfig>
  configuredSteppers,  \* std::vector<StepperConfig>
  servoChannelUsed,    \* bool servoChannelUsed[MAX_SERVO_CHANNELS]
  engines,             \* FastAccelStepper instances, by handle
  now,                 \* millis()
  response,            \* last client->text(...) answer to the requester
  issued,              \* commands sent with a commandId
  events,              \* actionComplete events broadcast with ws.textAll
  lastPinReadTime,     \* std::map<String, unsigned long>, 0 where absent
  io                   \* what the latest request or loop pass did besides its
                       \* answer and its actionComplete events: the update
                       \* messages it broadcast with ws.textAll and, for a
                       \* request, its reads and writes of the hardware pins

vars == <<configuredPins, configuredServos, configuredSteppers,
          servoChannelUsed, engines, now, response, issued, events,
          lastPinReadTime, io>>

(***************************************************************************)
(* Program constants                                                       *)
(***************************************************************************)
MAX_SERVO_CHANNELS == 16
analogInputReadInterval == 100
AnalogThreshold == 10
stepperPositionReportInterval == 100
ServoMinMoveDuration == 50
\* SERVO_MS_PER_DEGREE_FULL_SPEED = 7.7777f, as a ratio of integers
SERVO_MS_PER_DEGREE_NUM == 77777
SERVO_MS_PER_DEGREE_DEN == 10000
DefaultServoSpeed == 100
DefaultMaxSpeed == 50000
DefaultServoAngle == 90
DefaultMinAngle == 0
DefaultMaxAngle == 180

(***************************************************************************)
(* Bounds of the model                                                     *)
(***************************************************************************)
ClockBits == 8          \* width of the millis() counter in the model
MaxTravel == 3          \* the engine's target stays within -MaxTravel..MaxTravel
MaxChannelsInUse == 2   \* servo requests stop once more channels are marked

ClockMod == 2 ^ ClockBits

NoChannel == -1
NoKey == -999           \* a numeric JSON key the request does not carry
NoCmd == "absent"       \* a request without the commandId key
NoId == ""              \* empty String

PinIds == {"sens", "aux"}
ServoIds == {"s1", "s2"}
StepperIds == {"m1", "m2"}
CmdIds == {"c1", "c2"}

(***************************************************************************)
(* Small integer helpers                                                   *)
(***************************************************************************)
Abs(x) == IF x < 0 THEN -x ELSE x

\* C integer division truncates toward zero
CDiv(a, b) == IF a >= 0 THEN a \div b ELSE -((-a) \div b)

\* unsigned long subtraction, wrapping at the counter's width
USub(a, b) == (a - b) % ClockMod

(***************************************************************************)
(* Outbound traffic                                                        *)
(***************************************************************************)
\* the answer to the requester: its status and, for an error, its text (the
\* text of an OK answer is formatted from the request and not kept)
Resp(status, text) ==
  [status |-> status, text |-> IF status = "ERROR" THEN text ELSE "",
   names |-> {}]

\* an error whose text or JSON carries values of the request (the id)
RespNaming(status, text, names) ==
  [status |-> status, text |-> IF status = "ERROR" THEN text ELSE "",
   names |-> IF status = "ERROR" THEN names ELSE {}]

\* an update message broadcast with ws.textAll, or an access to a pin
Io(kind, id, value) == [kind |-> kind, id |-> id, value |-> value]

NotIssued ==
  [kind |-> "none", comp |-> NoId, target |-> 0, accepted |-> FALSE,
   cancelled |-> FALSE]

\* number of actionComplete events already broadcast for commandId c
EventCount(evs, c) == Cardinality({e \in evs : e.commandId = c})

\* whether the request that carried commandId c has been answered: a
\* handler answers with client->text as its last statement, and issued
\* holds a command from then on
Acknowledged(c) == c \in DOMAIN issued /\ issued[c].kind # "none"

\* ws.textAll of an actionComplete message; acked tells whether the
\* command had been answered when the message was broadcast
Emit(evs, c, comp, group, success, error, value) ==
  evs \cup {[commandId |-> c, componentId |-> comp, success |-> success,
             error |-> error, value |-> value,
             n |-> EventCount(evs, c) + 1, acked |-> Acknowledged(c)]}

(***************************************************************************)
(* Registry lookup: index of the entity with this id, 0 for nullptr        *)
(***************************************************************************)
\* a lookup that never finds the entity
FindNothing(reg, id) == 0

FindIndex(reg, id) ==
  IF \E i \in 1..Len(reg) : reg[i].id = id
  THEN CHOOSE i \in 1..Len(reg) :
         reg[i].id = id /\ \A j \in 1..(i - 1) : reg[j].id # id
  ELSE 0

findPinById(id) == FindIndex(configuredPins, id)
findServoById(id) == FindIndex(configuredServos, id)
findStepperById(id) == FindIndex(configuredSteppers, id)

\* std::remove_if(begin, end, id match): the elements kept, in order
RemoveIfKept(reg, id) == SelectSeq(reg, LAMBDA e : e.id # id)

\* what *it denotes after std::remove_if when one element matched: the
\* slot past the kept elements, which still holds the scalar fields of the
\* element that was last in the vector
RemoveIfTail(reg) == reg[Len(reg)]

(***************************************************************************)
(* PWM channel pool (config.cpp)                                           *)
(***************************************************************************)
FreeChannels(used) == {c \in 0..(MAX_SERVO_CHANNELS - 1) : ~used[c]}

\* the channel allocateServoChannel returns: the lowest free one, or -1
allocateServoChannel(used) ==
  IF FreeChannels(used) = {} THEN NoChannel
  ELSE CHOOSE c \in FreeChannels(used) : \A d \in FreeChannels(used) : c <= d

MarkUsed(used, c) ==
  IF c >= 0 /\ c < MAX_SERVO_CHANNELS THEN [used EXCEPT ![c] = TRUE] ELSE used

releaseServoChannel(used, c) ==
  IF c >= 0 /\ c < MAX_SERVO_CHANNELS THEN [used EXCEPT ![c] = FALSE] ELSE used

(***************************************************************************)
(* Servo operations (hardware/servo.cpp).  Each returns the servo record   *)
(* and the channel pool after the call.                                    *)
(***************************************************************************)
NewServo(id) ==
  [id |-> id, pin |-> 0, channel |-> NoChannel, attached |-> FALSE,
   minAngle |-> DefaultMinAngle, maxAngle |-> DefaultMaxAngle,
   speed |-> DefaultServoSpeed,
   currentAngle |-> DefaultServoAngle, targetAngle |-> DefaultServoAngle,
   previousAngle |-> DefaultServoAngle,
   moveStartTime |-> 0, moveDuration |-> 0,
   isActionPending |-> FALSE, pendingCommandId |-> NoId]

cleanupServo(s, used) ==
  [servo |-> [s EXCEPT !.attached = FALSE,
                       !.channel = IF s.channel >= 0 THEN NoChannel ELSE @],
   used  |-> IF s.channel >= 0 THEN releaseServoChannel(used, s.channel)
             ELSE used]

\* attachOk: whether servo.attach(...) leaves the Servo object attached
initializeServo(s, used, attachOk) ==
  LET a  == IF s.attached THEN cleanupServo(s, used)
            ELSE [servo |-> s, used |-> used]
      s1 == [a.servo EXCEPT !.attached = FALSE]
      ch == IF s1.channel < 0 THEN allocateServoChannel(a.used)
            ELSE s1.channel
      u1 == IF s1.channel < 0 THEN MarkUsed(a.used, ch) ELSE a.used
  IN  IF ch < 0
      THEN [servo |-> [s1 EXCEPT !.channel = NoChannel], used |-> u1]
      ELSE IF attachOk
      THEN [servo |-> [s1 EXCEPT !.channel = ch, !.attached = TRUE],
            used |-> u1]
      ELSE [servo |-> [s1 EXCEPT !.channel = NoChannel],
            used |-> releaseServoChannel(u1, ch)]

\* the angle initializeServo writes to the servo: servo.write(currentAngle)
\* once the attachment has succeeded
initializeServoWrites(s, used, attachOk) ==
  IF initializeServo(s, used, attachOk).servo.attached
  THEN {Io("pwm", s.id, s.currentAngle)}
  ELSE {}

isValidAngle(s, angle) == angle >= s.minAngle /\ angle <= s.maxAngle

moveServo(s, used, angle, attachOk) ==
  IF ~isValidAngle(s, angle)
  THEN [ok |-> FALSE, servo |-> s, used |-> used]
  ELSE LET a == IF s.attached THEN [servo |-> s, used |-> used]
                ELSE initializeServo(s, used, attachOk)
       IN  IF ~a.servo.attached
           THEN [ok |-> FALSE, servo |-> a.servo, used |-> a.used]
           ELSE [ok |-> TRUE,
                 servo |-> [a.servo EXCEPT
                              !.previousAngle = a.servo.currentAngle,
                              !.targetAngle = angle,
                              !.currentAngle = angle,
                              !.moveStartTime = 0,
                              !.moveDuration = 0,
                              !.isActionPending = TRUE],
                 used |-> a.used]

\* the angles moveServo writes to the servo: that of the attachment it
\* makes for a detached servo, then servo.write(angle)
moveServoWrites(s, used, angle, attachOk) ==
  IF ~isValidAngle(s, angle) THEN {}
  ELSE (IF s.attached THEN {} ELSE initializeServoWrites(s, used, attachOk))
       \cup (IF moveServo(s, used, angle, attachOk).ok
             THEN {Io("pwm", s.id, angle)}
             ELSE {})

\* (unsigned long)(SERVO_MS_PER_DEGREE_FULL_SPEED * angleDistance / speedFactor)
\* with speedFactor = speed / 100.0f, floored at 50 ms
ServoMoveDuration(s) ==
  LET dist == Abs(s.targetAngle - s.previousAngle)
      sp   == IF s.speed <= 0 THEN 100 ELSE s.speed
      d    == (SERVO_MS_PER_DEGREE_NUM * dist * 100)
                \div (SERVO_MS_PER_DEGREE_DEN * sp)
  IN  IF d < ServoMinMoveDuration THEN ServoMinMoveDuration ELSE d

\* one servo's share of updateServoActionStatus at time t
updateServoStatus(s, t) ==
  IF ~s.isActionPending THEN s
  ELSE LET s1 == IF s.moveStartTime = 0
                 THEN [s EXCEPT !.moveStartTime = t,
                                !.moveDuration = ServoMoveDuration(s)]
                 ELSE s
       IN  IF USub(t, s1.moveStartTime) >= s1.moveDuration
           THEN [s1 EXCEPT !.moveStartTime = 0, !.moveDuration = 0,
                           !.previousAngle = s1.currentAngle,
                           !.isActionPending = FALSE,
                           !.pendingCommandId = NoId]
           ELSE s1

\* whether that share completes the pending action
ServoCompletes(s, t) ==
  /\ s.isActionPending
  /\ LET start == IF s.moveStartTime = 0 THEN t ELSE s.moveStartTime
         dur   == IF s.moveStartTime = 0 THEN ServoMoveDuration(s)
                  ELSE s.moveDuration
     IN  USub(t, start) >= dur

\* sendServoActionComplete: nothing is sent for an empty pendingCommandId
sendServoActionComplete(evs, s, success, error) ==
  IF s.pendingCommandId = NoId THEN evs
  ELSE Emit(evs, s.pendingCommandId, s.id, "servos", success, error,
            s.currentAngle)

RECURSIVE ServoEvents(_, _, _, _)
\* the events updateServoActionStatus broadcasts, servo by servo from i
ServoEvents(servos, evs, t, i) ==
  IF i > Len(servos) THEN evs
  ELSE ServoEvents(servos,
                   IF ServoCompletes(servos[i], t)
                   THEN sendServoActionComplete(evs, servos[i], TRUE, "")
                   ELSE evs,
                   t, i + 1)

updateServoActionStatus(servos, t) ==
  [i \in 1..Len(servos) |-> updateServoStatus(servos[i], t)]

(***************************************************************************)
(* handleServoMessage (hardware/servo.cpp)                                 *)
(***************************************************************************)
\* the commandId of a request is fresh: the client issues each id once
FreshCmd(cid) == cid = NoCmd \/ (cid \in CmdIds /\ issued[cid].kind = "none")

Issue(cid, kind, comp, target, accepted) ==
  IF cid = NoCmd THEN issued
  ELSE [issued EXCEPT ![cid] = [kind |-> kind, comp |-> comp,
                                target |-> target, accepted |-> accepted,
                                cancelled |-> FALSE]]

\* a stop or detach arrives while the entity's action is pending: the
\* command whose id the entity holds, if it is not completed yet, is noted
\* as cancelled
Cancel(pending, cid) ==
  IF pending /\ cid \in CmdIds /\ EventCount(events, cid) = 0
  THEN [issued EXCEPT ![cid].cancelled = TRUE]
  ELSE issued

ServoFrame ==
  UNCHANGED <<configuredPins, configuredSteppers, engines, now,
              lastPinReadTime>>

\* action "configure"
ServoConfigure(cfg_id, nameOk, pin, minAngle, maxAngle, initialAngle, channel, attachOk) ==
  LET ex == findServoById(cfg_id)
      ch == IF channel = NoKey THEN NoChannel ELSE channel
  IN
  /\ ServoFrame
  /\ UNCHANGED <<issued, events>>
  /\ IF channel # NoKey /\ (ch < 0 \/ ch >= MAX_SERVO_CHANNELS)
     THEN /\ response' = Resp("ERROR", "Invalid servo channel (must be 0-15)")
          /\ io' = {}
          /\ UNCHANGED <<configuredServos, servoChannelUsed>>
     ELSE IF /\ channel # NoKey
             /\ servoChannelUsed[ch]
             /\ ~(ex # 0 /\ configuredServos[ex].channel = ch)
     THEN /\ response' =
               Resp("ERROR", "Servo channel already in use by another servo")
          /\ io' = {}
          /\ UNCHANGED <<configuredServos, servoChannelUsed>>
     ELSE IF cfg_id = NoId \/ ~nameOk \/ pin = 0
     THEN /\ response' =
               Resp("ERROR", "Missing servo config fields (id, name, pin)")
          /\ io' = {}
          /\ UNCHANGED <<configuredServos, servoChannelUsed>>
     ELSE LET base == IF ex # 0
                      THEN cleanupServo(configuredServos[ex], servoChannelUsed)
                      ELSE [servo |-> NewServo(cfg_id),
                            used |-> servoChannelUsed]
              s1 == [base.servo EXCEPT
                       !.pin = pin, !.minAngle = minAngle,
                       !.maxAngle = maxAngle, !.currentAngle = initialAngle,
                       !.channel = IF ch >= 0 THEN ch ELSE @]
              u1 == IF ch >= 0 THEN MarkUsed(base.used, ch) ELSE base.used
              r  == initializeServo(s1, u1, attachOk)
          IN  /\ configuredServos' =
                   IF ex # 0 THEN [configuredServos EXCEPT ![ex] = r.servo]
                   ELSE Append(configuredServos, r.servo)
              /\ servoChannelUsed' = r.used
              /\ io' = initializeServoWrites(s1, u1, attachOk)
              /\ response' = Resp("OK", "Servo configured")

\* action "control", command "move"; the legacy action "moveServo" is the
\* same handler without the speed key
ServoMove(id, angle, speed, cid, attachOk) ==
  LET i == findServoById(id) IN
  /\ FreshCmd(cid)
  /\ ServoFrame
  /\ UNCHANGED events
  /\ IF i = 0
     THEN /\ response' = RespNaming("ERROR", "Servo not found", {id})
          /\ issued' = Issue(cid, "servoMove", id, angle, FALSE)
          /\ io' = {}
          /\ UNCHANGED <<configuredServos, servoChannelUsed>>
     ELSE IF angle < 0
     THEN /\ response' =
               Resp("ERROR", "Missing or invalid 'angle' for servo move")
          /\ issued' = Issue(cid, "servoMove", id, angle, FALSE)
          /\ io' = {}
          /\ UNCHANGED <<configuredServos, servoChannelUsed>>
     ELSE LET s0 == configuredServos[i]
              sp == IF speed = NoKey THEN s0.speed
                    ELSE IF speed < 1 THEN 1
                    ELSE IF speed > 100 THEN 100 ELSE speed
              s1 == [s0 EXCEPT !.speed = sp,
                               !.pendingCommandId =
                                  IF cid = NoCmd THEN @ ELSE cid]
              r  == moveServo(s1, servoChannelUsed, angle, attachOk)
          IN  /\ configuredServos' = [configuredServos EXCEPT ![i] = r.servo]
              /\ servoChannelUsed' = r.used
              /\ issued' = Issue(cid, "servoMove", id, angle, r.ok)
              /\ io' = moveServoWrites(s1, servoChannelUsed, angle, attachOk)
              /\ response' = IF r.ok THEN Resp("OK", "Servo moving to angle")
                             ELSE RespNaming("ERROR", "Failed to move servo", {id})

\* a detach that refuses a servo that is not attached
ServoDetachAttachedOnly(id) ==
  LET i == findServoById(id) IN
  /\ ServoFrame
  /\ io' = {}
  /\ UNCHANGED <<events, issued>>
  /\ IF i = 0 \/ ~configuredServos[i].attached
     THEN /\ response' = RespNaming("ERROR", "Servo not attached", {id})
          /\ UNCHANGED <<configuredServos, servoChannelUsed>>
     ELSE LET r == cleanupServo(configuredServos[i], servoChannelUsed)
          IN  /\ configuredServos' = [configuredServos EXCEPT ![i] = r.servo]
              /\ servoChannelUsed' = r.used
              /\ response' = Resp("OK", "Servo detached")

\* action "control", command "detach"; the legacy action "detachServo"
ServoDetach(id) ==
  LET i == findServoById(id) IN
  /\ ServoFrame
  /\ io' = {}
  /\ UNCHANGED events
  /\ IF i = 0
     THEN /\ response' = RespNaming("ERROR", "Servo not found", {id})
          /\ UNCHANGED <<configuredServos, servoChannelUsed, issued>>
     ELSE LET r == cleanupServo(configuredServos[i], servoChannelUsed)
          IN  /\ issued' = Cancel(configuredServos[i].isActionPending,
                                  configuredServos[i].pendingCommandId)
              /\ configuredServos' = [configuredServos EXCEPT ![i] = r.servo]
              /\ servoChannelUsed' = r.used
              /\ response' = Resp("OK", "Servo detached")

\* a setParams that brings the servo into the new range
ServoSetParamsClamping(id, minAngle, maxAngle) ==
  LET i == findServoById(id) IN
  /\ ServoFrame
  /\ UNCHANGED <<issued, events, servoChannelUsed>>
  /\ IF i = 0
     THEN /\ response' = RespNaming("ERROR", "Servo not found", {id})
          /\ io' = {}
          /\ UNCHANGED configuredServos
     ELSE LET s0 == configuredServos[i]
              mn == IF minAngle = NoKey THEN s0.minAngle ELSE minAngle
              mx == IF maxAngle = NoKey THEN s0.maxAngle ELSE maxAngle
              a  == IF s0.currentAngle < mn THEN mn
                    ELSE IF s0.currentAngle > mx THEN mx
                    ELSE s0.currentAngle
          IN  /\ configuredServos' =
                   [configuredServos EXCEPT ![i].minAngle = mn,
                                            ![i].maxAngle = mx,
                                            ![i].currentAngle = a]
              /\ io' = IF s0.attached THEN {Io("pwm", id, a)} ELSE {}
              /\ response' = Resp("OK", "Servo parameters updated")

\* action "control", command "setParams"
ServoSetParams(id, minAngle, maxAngle) ==
  LET i == findServoById(id) IN
  /\ ServoFrame
  /\ io' = {}
  /\ UNCHANGED <<issued, events, servoChannelUsed>>
  /\ IF i = 0
     THEN /\ response' = RespNaming("ERROR", "Servo not found", {id})
          /\ UNCHANGED configuredServos
     ELSE /\ configuredServos' =
               [configuredServos EXCEPT
                  ![i].minAngle = IF minAngle = NoKey THEN @ ELSE minAngle,
                  ![i].maxAngle = IF maxAngle = NoKey THEN @ ELSE maxAngle]
          /\ response' = Resp("OK", "Servo parameters updated")

\* action "remove"
ServoRemove(id) ==
  LET kept == RemoveIfKept(configuredServos, id) IN
  /\ ServoFrame
  /\ io' = {}
  /\ UNCHANGED <<issued, events>>
  /\ IF Len(kept) # Len(configuredServos)
     THEN LET r == cleanupServo(RemoveIfTail(configuredServos),
                                servoChannelUsed)
          IN  /\ configuredServos' = kept
              /\ servoChannelUsed' = r.used
              /\ response' = Resp("OK", "Servo removed")
     ELSE /\ response' = RespNaming("ERROR", "Servo not found for removal", {id})
          /\ UNCHANGED <<configuredServos, servoChannelUsed>>

\* an action or a control command the handler does not know
ServoUnknown(id, isControl) ==
  /\ ServoFrame
  /\ io' = {}
  /\ UNCHANGED <<issued, events, configuredServos, servoChannelUsed>>
  /\ response' =
       IF ~isControl THEN Resp("ERROR", "Unknown servo action")
       ELSE IF findServoById(id) = 0 THEN RespNaming("ERROR", "Servo not found", {id})
       ELSE Resp("ERROR", "Unknown servo command")

(***************************************************************************)
(* Motion engine (FastAccelStepper), one instance per handle.  The engine  *)
(* runs on hardware timers, independently of the loop.                     *)
(***************************************************************************)
\* speed: the step rate in Hz the engine applies; 0 until one is set
NewEngine == [pos |-> 0, target |-> 0, running |-> FALSE, speed |-> 0]

\* setSpeedInHz refuses a rate of 0 (it returns -1, which no caller reads)
\* and keeps the rate applied before
EngineSetSpeedInHz(e, hz) == IF hz = 0 THEN e ELSE [e EXCEPT !.speed = hz]

EngineMoveTo(e, t) == [e EXCEPT !.target = t, !.running = (t # e.pos)]

EngineMove(e, steps) == EngineMoveTo(e, e.pos + steps)

EngineForceStop(e) == [e EXCEPT !.target = e.pos, !.running = FALSE]

\* setCurrentPosition shifts the reference; a move in progress keeps its
\* remaining distance
EngineSetCurrentPosition(e, p) ==
  [e EXCEPT !.pos = p, !.target = e.target + (p - e.pos)]

EngineForceStopAndNewPosition(e, p) ==
  [e EXCEPT !.pos = p, !.target = p, !.running = FALSE]

\* one step pulse toward the target
EngineAdvance(e) ==
  LET p == IF e.target > e.pos THEN e.pos + 1 ELSE e.pos - 1
  IN  [e EXCEPT !.pos = p, !.running = (p # e.target)]

(***************************************************************************)
(* Stepper operations (hardware/stepper.cpp)                               *)
(***************************************************************************)
\* the members of StepperConfig that have no initializer hold whatever the
\* stack held when handleStepperMessage declared "StepperConfig newConfig"
UninitStepperFields ==
  {[isHoming |-> FALSE, homeSensorPinActiveState |-> 0,
    homePositionOffset |-> 0],
   [isHoming |-> TRUE, homeSensorPinActiveState |-> 1,
    homePositionOffset |-> 1]}

NewStepper(id, handle, u) ==
  [id |-> id, stepper |-> handle, maxSpeed |-> DefaultMaxSpeed,
   minPosition |-> -50000, maxPosition |-> 50000,
   currentPosition |-> 0, targetPosition |-> 0,
   isHomed |-> FALSE, lastPositionReportTime |-> 0,
   homeSensorId |-> NoId,
   isHoming |-> u.isHoming,
   homeSensorPinActiveState |-> u.homeSensorPinActiveState,
   homePositionOffset |-> u.homePositionOffset,
   isActionPending |-> FALSE, pendingCommandId |-> NoId]

clampPosition(st, position) ==
  IF position < st.minPosition THEN st.minPosition
  ELSE IF position > st.maxPosition THEN st.maxPosition
  ELSE position

\* returns the record and its engine after the call
stopStepper(st, e) ==
  [stepper |-> [st EXCEPT !.isActionPending = FALSE, !.isHoming = FALSE,
                          !.targetPosition = e.pos],
   engine  |-> EngineForceStop(e)]

sendStepperActionComplete(evs, st, success, error) ==
  IF st.pendingCommandId = NoId THEN evs
  ELSE Emit(evs, st.pendingCommandId, st.id, "steppers", success, error,
            st.currentPosition)

\* one stepper's share of updateStepperPositions at time t; level is what
\* digitalRead returns for the home sensor pin; sent holds the position
\* updates it broadcasts
updateStepper(st, e, pins, evs, t, level) ==
  LET currentPos == e.pos
      sensor == FindIndex(pins, st.homeSensorId)
      a == IF st.isHoming
           THEN IF sensor # 0 /\ pins[sensor].mode = "input"
                THEN IF level = st.homeSensorPinActiveState
                     THEN LET h == [st EXCEPT
                                      !.currentPosition = st.homePositionOffset,
                                      !.targetPosition = st.homePositionOffset,
                                      !.isHoming = FALSE,
                                      !.isActionPending = FALSE,
                                      !.isHomed = TRUE]
                          IN  [stepper |-> [h EXCEPT !.pendingCommandId = NoId],
                               engine |-> EngineSetSpeedInHz(
                                            EngineForceStopAndNewPosition(
                                              e, st.homePositionOffset),
                                            st.maxSpeed),
                               events |-> sendStepperActionComplete(
                                            evs, h, TRUE, ""),
                               sent |-> {Io("position", st.id,
                                            st.homePositionOffset)}]
                     ELSE [stepper |-> st, engine |-> e, events |-> evs,
                           sent |-> {}]
                ELSE LET r == stopStepper(st, e)
                     IN  [stepper |-> [r.stepper EXCEPT
                                         !.pendingCommandId = NoId],
                          engine |-> r.engine,
                          events |-> sendStepperActionComplete(
                                       evs, r.stepper, FALSE,
                                       "Home sensor error"),
                          sent |-> {}]
           ELSE IF st.isActionPending /\ ~e.running
           THEN LET d == [st EXCEPT !.isActionPending = FALSE,
                                    !.currentPosition = currentPos]
                IN  [stepper |-> [d EXCEPT !.pendingCommandId = NoId],
                     engine |-> e,
                     events |-> sendStepperActionComplete(evs, d, TRUE, ""),
                     sent |-> {}]
           ELSE [stepper |-> st, engine |-> e, events |-> evs, sent |-> {}]
      report == /\ USub(t, a.stepper.lastPositionReportTime)
                     >= stepperPositionReportInterval
                /\ currentPos # a.stepper.currentPosition
  IN  [a EXCEPT !.stepper =
         IF report THEN [@ EXCEPT !.currentPosition = currentPos,
                                  !.lastPositionReportTime = t]
         ELSE @,
                !.sent =
         IF report THEN @ \cup {Io("position", st.id, currentPos)} ELSE @]

\* the position updates one pass of updateStepperPositions broadcasts
\* (sendStepperPositionUpdate); each stepper reads its own record and engine
StepperPositionUpdates(steppers, engs, pins, evs, t, level) ==
  UNION {updateStepper(steppers[i], engs[steppers[i].stepper], pins, evs,
                       t, level).sent : i \in 1..Len(steppers)}

RECURSIVE updateStepperPositions(_, _, _, _, _, _, _)
\* the loop of updateStepperPositions from index i on
updateStepperPositions(steppers, engs, pins, evs, t, level, i) ==
  IF i > Len(steppers)
  THEN [steppers |-> steppers, engines |-> engs, events |-> evs]
  ELSE LET h == steppers[i].stepper
           r == updateStepper(steppers[i], engs[h], pins, evs, t, level)
       IN  updateStepperPositions([steppers EXCEPT ![i] = r.stepper],
                                  [engs EXCEPT ![h] = r.engine],
                                  pins, r.events, t, level, i + 1)

(***************************************************************************)
(* handleStepperMessage (message_handler.cpp)                              *)
(***************************************************************************)
\* a stop or a remove ends what a home command of stepper id started
CancelHoming(iss, id) ==
  [c \in CmdIds |->
     IF iss[c].kind \in {"home", "homeNoSensor"} /\ iss[c].comp = id
     THEN [iss[c] EXCEPT !.cancelled = TRUE]
     ELSE iss[c]]

\* whether an input pin, which a home sensor has to be, is registered
SensorRegistered(pins) == \E k \in 1..Len(pins) : pins[k].mode = "input"

StepperFrame ==
  UNCHANGED <<configuredPins, configuredServos, servoChannelUsed, now,
              lastPinReadTime>>

StepperNotFound(id) == findStepperById(id) = 0

\* engine.stepperConnectToPin: a new handle, or 0 (nullptr) when the engine
\* has handed out all of its capacity instances
stepperConnectToPin(engs, capacity) ==
  IF Len(engs) < capacity THEN Len(engs) + 1 ELSE 0

\* action "configure"
\* homeSensorId: the homing sensor the config object names; the handler
\* reads name, pulPin, dirPin, enaPin, minPosition, maxPosition and
\* stepsPerInch from the config object and none of its homing keys
StepperConfigure(cfg_id, nameOk, pulPin, dirPin, minPosition, maxPosition, uninit, capacity, homeSensorId) ==
  LET ex == findStepperById(cfg_id)
      h  == stepperConnectToPin(engines, capacity)
  IN
  /\ StepperFrame
  /\ io' = {}
  /\ UNCHANGED <<issued, events>>
  /\ IF cfg_id = NoId \/ ~nameOk \/ pulPin = 0 \/ dirPin = 0
     THEN /\ response' = Resp("ERROR", "Missing stepper config fields")
          /\ UNCHANGED <<configuredSteppers, engines>>
     ELSE IF ex # 0
     THEN /\ configuredSteppers' =
               [configuredSteppers EXCEPT ![ex].minPosition = minPosition,
                                          ![ex].maxPosition = maxPosition]
          /\ response' = Resp("OK", "Stepper configured")
          /\ UNCHANGED engines
     ELSE IF h # 0
     THEN /\ engines' =
               Append(engines, EngineSetSpeedInHz(NewEngine, DefaultMaxSpeed))
          /\ configuredSteppers' =
               Append(configuredSteppers,
                      [NewStepper(cfg_id, h, uninit) EXCEPT
                         !.minPosition = minPosition,
                         !.maxPosition = maxPosition])
          /\ response' = Resp("OK", "Stepper configured")
     ELSE /\ response' = Resp("ERROR", "Failed to create stepper on pin")
          /\ UNCHANGED <<configuredSteppers, engines>>

\* the answer of every non-configure action for an unknown id
StepperMissing(id) ==
  /\ StepperNotFound(id)
  /\ StepperFrame
  /\ io' = {}
  /\ UNCHANGED <<configuredSteppers, engines, issued, events>>
  /\ response' =
       RespNaming("ERROR", "Stepper not found or not initialized", {id})

\* action "control", command "setParams" (speed in whole Hz, limits)
StepperSetParams(id, minPosition, maxPosition, speed) ==
  LET i == findStepperById(id) IN
  /\ i # 0
  /\ StepperFrame
  /\ io' = {}
  /\ UNCHANGED <<issued, events>>
  /\ engines' =
       IF speed = NoKey THEN engines
       ELSE [engines EXCEPT ![configuredSteppers[i].stepper] =
                               EngineSetSpeedInHz(@, speed)]
  /\ configuredSteppers' =
       [configuredSteppers EXCEPT
          ![i].maxSpeed = IF speed = NoKey THEN @ ELSE speed,
          ![i].minPosition = IF minPosition = NoKey THEN @ ELSE minPosition,
          ![i].maxPosition = IF maxPosition = NoKey THEN @ ELSE maxPosition]
  /\ response' = Resp("OK", "Stepper params updated")

\* action "control", command "move"
StepperMove(id, value, cid) ==
  LET i == findStepperById(id) IN
  /\ i # 0
  /\ FreshCmd(cid)
  /\ StepperFrame
  /\ io' = {}
  /\ UNCHANGED events
  /\ IF value = NoKey
     THEN /\ response' = Resp("ERROR", "Missing 'value' for move command")
          /\ issued' = Issue(cid, "move", id, 0, FALSE)
          /\ UNCHANGED <<configuredSteppers, engines>>
     ELSE LET st == configuredSteppers[i]
              targetPos == clampPosition(st, value)
          IN  /\ engines' = [engines EXCEPT
                               ![st.stepper] = EngineMoveTo(@, targetPos)]
              /\ configuredSteppers' =
                   [configuredSteppers EXCEPT
                      ![i].pendingCommandId = IF cid = NoCmd THEN @ ELSE cid,
                      ![i].targetPosition = targetPos,
                      ![i].isActionPending = TRUE]
              /\ issued' = Issue(cid, "move", id, targetPos, TRUE)
              /\ response' = Resp("OK", "Stepper moving")

\* action "control", command "step"
StepperStep(id, value, cid) ==
  LET i == findStepperById(id) IN
  /\ i # 0
  /\ FreshCmd(cid)
  /\ StepperFrame
  /\ io' = {}
  /\ IF value = NoKey
     THEN /\ response' = Resp("ERROR", "Missing 'value' for step command")
          /\ issued' = Issue(cid, "step", id, 0, FALSE)
          /\ UNCHANGED <<configuredSteppers, engines, events>>
     ELSE LET st == configuredSteppers[i]
              currentPos == engines[st.stepper].pos
              newPos == clampPosition(st, currentPos + value)
              steps == newPos - currentPos
          IN  /\ engines' =
                   IF steps # 0
                   THEN [engines EXCEPT ![st.stepper] = EngineMove(@, steps)]
                   ELSE engines
              /\ configuredSteppers' =
                   [configuredSteppers EXCEPT
                      ![i].pendingCommandId = IF cid = NoCmd THEN @ ELSE cid,
                      ![i].targetPosition = IF steps # 0 THEN newPos ELSE @,
                      ![i].isActionPending = IF steps # 0 THEN TRUE ELSE @]
              /\ events' =
                   IF steps = 0 /\ cid # NoCmd
                   THEN Emit(events, cid, id, "steppers", TRUE, "", NoKey)
                   ELSE events
              /\ issued' = Issue(cid, IF steps = 0 THEN "stepZero" ELSE "step",
                                 id, newPos, TRUE)
              /\ response' = Resp("OK", "Stepper stepping")

\* action "control", command "home": a move to the middle of the range;
\* the handler reads no commandId
StepperHome(id, cid) ==
  LET i == findStepperById(id) IN
  /\ i # 0
  /\ FreshCmd(cid)
  /\ StepperFrame
  /\ io' = {}
  /\ UNCHANGED events
  /\ LET st == configuredSteppers[i]
         homePos == CDiv(st.minPosition + st.maxPosition, 2)
     IN  /\ engines' = [engines EXCEPT
                          ![st.stepper] = EngineMoveTo(@, homePos)]
         /\ configuredSteppers' =
              [configuredSteppers EXCEPT ![i].targetPosition = homePos]
         /\ issued' = Issue(cid,
                            IF SensorRegistered(configuredPins) THEN "home"
                            ELSE "homeNoSensor",
                            id, homePos, TRUE)
         /\ response' = Resp("OK", "Stepper homing")

\* action "control", command "stop"
StepperStop(id) ==
  LET i == findStepperById(id) IN
  /\ i # 0
  /\ StepperFrame
  /\ io' = {}
  /\ UNCHANGED <<configuredSteppers, events>>
  /\ issued' = CancelHoming(Cancel(configuredSteppers[i].isActionPending,
                                   configuredSteppers[i].pendingCommandId),
                            id)
  /\ engines' = [engines EXCEPT
                   ![configuredSteppers[i].stepper] = EngineForceStop(@)]
  /\ response' = Resp("OK", "Stepper emergency stop")

\* a setCurrentPosition that moves the engine's reference only
StepperSetCurrentPositionEngineOnly(id, value) ==
  LET i == findStepperById(id) IN
  /\ i # 0
  /\ value # NoKey =>
       Abs(EngineSetCurrentPosition(engines[configuredSteppers[i].stepper],
                                    value).target) <= MaxTravel
  /\ StepperFrame
  /\ UNCHANGED <<issued, events, configuredSteppers>>
  /\ IF value = NoKey
     THEN /\ response' =
               Resp("ERROR", "Missing 'value' for setCurrentPosition command")
          /\ io' = {}
          /\ UNCHANGED engines
     ELSE /\ io' = {Io("position", id, value)}
          /\ engines' =
               [engines EXCEPT ![configuredSteppers[i].stepper] =
                                  EngineSetCurrentPosition(@, value)]
          /\ response' = Resp("OK", "Stepper current position set")

\* action "control", command "setCurrentPosition"
StepperSetCurrentPosition(id, value) ==
  LET i == findStepperById(id) IN
  /\ i # 0
  /\ value # NoKey =>
       Abs(EngineSetCurrentPosition(engines[configuredSteppers[i].stepper],
                                    value).target) <= MaxTravel
  /\ StepperFrame
  /\ UNCHANGED <<issued, events>>
  /\ IF value = NoKey
     THEN /\ response' =
               Resp("ERROR", "Missing 'value' for setCurrentPosition command")
          /\ io' = {}
          /\ UNCHANGED <<configuredSteppers, engines>>
     ELSE /\ io' = {Io("position", id, value)}
          /\ engines' =
               [engines EXCEPT ![configuredSteppers[i].stepper] =
                                  EngineSetCurrentPosition(@, value)]
          /\ configuredSteppers' =
               [configuredSteppers EXCEPT
                  ![i].currentPosition = value,
                  ![i].targetPosition = value,
                  ![i].isActionPending = FALSE,
                  ![i].pendingCommandId = NoId]
          /\ response' = Resp("OK", "Stepper current position set")

\* action "remove": forceStop goes to the engine of the record *it denotes
StepperRemove(id) ==
  LET kept == RemoveIfKept(configuredSteppers, id) IN
  /\ findStepperById(id) # 0
  /\ StepperFrame
  /\ io' = {}
  /\ UNCHANGED events
  /\ issued' = CancelHoming(issued, id)
  /\ engines' = [engines EXCEPT
                   ![RemoveIfTail(configuredSteppers).stepper] =
                      EngineForceStop(@)]
  /\ configuredSteppers' = kept
  /\ response' = Resp("OK", "Stepper removed")

\* an action or a control command the handler does not know
StepperUnknown(id, isControl) ==
  /\ findStepperById(id) # 0
  /\ StepperFrame
  /\ io' = {}
  /\ UNCHANGED <<configuredSteppers, engines, issued, events>>
  /\ response' = IF isControl THEN Resp("ERROR", "Unknown stepper command")
                 ELSE Resp("ERROR", "Unknown stepper action")

\* the motion engine emits a step pulse on one running axis
EngineStep(h) ==
  /\ h \in 1..Len(engines)
  /\ engines[h].running
  /\ engines' = [engines EXCEPT ![h] = EngineAdvance(@)]
  /\ UNCHANGED <<configuredPins, configuredServos, configuredSteppers,
                 servoChannelUsed, now, response, issued, events,
                 lastPinReadTime, io>>

(***************************************************************************)
(* I/O pins (hardware/io_pin.cpp, handlePinMessage in message_handler.cpp). *)
(* The debouncer field is the Bounce* of the record: "none" for nullptr,   *)
(* "live" for an object the record owns, "freed" for a pointer to an       *)
(* object that has been deleted.                                           *)
(***************************************************************************)
NewPin(id, pin, pinType, mode, debounceMs) ==
  [id |-> id, pin |-> pin, pinType |-> pinType, mode |-> mode,
   lastValue |-> -1, debounceMs |-> debounceMs, debouncer |-> "none"]

\* the writes initializePin makes to the pin: an output starts low
InitialWrites(id, mode, pinType) ==
  IF mode = "output" /\ pinType \in {"digital", "pwm"}
  THEN {Io("write", id, 0)} ELSE {}

initializePin(p) ==
  IF p.mode = "input" /\ p.pinType = "digital" /\ p.debounceMs > 0
  THEN [p EXCEPT !.debouncer = "live"]
  ELSE p

cleanupPin(p) == [p EXCEPT !.debouncer = "none"]

\* a poll that reports every input pin, changed or not
shouldUpdateAlways(p, lastRead, t, level, chg) == p.mode = "input"

\* one pin's share of updatePinValues at time t.  level is what the read
\* of the pin returns; chg is what Bounce::changed() answers (for a freed
\* debouncer: whatever the read of the freed object gives).  shouldUpdate
\* is the flag of the same name in the loop body
shouldUpdate(p, lastRead, t, level, chg) ==
  /\ p.mode = "input"
  /\ \/ p.pinType = "digital" /\ p.debouncer # "none" /\ chg
     \/ p.pinType = "digital" /\ p.debouncer = "none" /\ level # p.lastValue
     \/ /\ p.pinType = "analog"
        /\ USub(t, lastRead[p.id]) >= analogInputReadInterval
        /\ Abs(level - p.lastValue) > AnalogThreshold

updatePin(p, lastRead, t, level, chg) ==
  [pin |-> IF shouldUpdate(p, lastRead, t, level, chg)
           THEN [p EXCEPT !.lastValue = level] ELSE p,
   lastRead |-> IF /\ p.mode = "input"
                   /\ p.pinType = "analog"
                   /\ USub(t, lastRead[p.id]) >= analogInputReadInterval
                THEN [lastRead EXCEPT ![p.id] = t] ELSE lastRead]

\* the value messages one pass of updatePinValues broadcasts; each pin
\* reads its own record and its own entry of lastPinReadTime
PinValueUpdates(pins, lastRead, t, level, chg) ==
  {Io("pinValue", pins[i].id, level) :
     i \in {k \in 1..Len(pins) : shouldUpdate(pins[k], lastRead, t, level,
                                              chg)}}

RECURSIVE updatePinValues(_, _, _, _, _, _)
\* the loop of updatePinValues from index i on
updatePinValues(pins, lastRead, t, level, chg, i) ==
  IF i > Len(pins) THEN [pins |-> pins, lastRead |-> lastRead]
  ELSE LET r == updatePin(pins[i], lastRead, t, level, chg)
       IN  updatePinValues([pins EXCEPT ![i] = r.pin], r.lastRead, t, level,
                           chg, i + 1)

PinFrame ==
  UNCHANGED <<configuredServos, configuredSteppers, servoChannelUsed,
              engines, now, issued, events>>

\* action "configure"
PinConfigure(id, nameOk, pin, mode, pinType, debounceMs) ==
  LET ex == findPinById(id) IN
  /\ PinFrame
  /\ UNCHANGED lastPinReadTime
  /\ IF id = NoId \/ ~nameOk
     THEN /\ response' = Resp("ERROR", "Missing required config fields for pin")
          /\ io' = {}
          /\ UNCHANGED configuredPins
     ELSE /\ io' = InitialWrites(id, mode, pinType)
          /\ configuredPins' =
               IF ex # 0
               THEN [configuredPins EXCEPT ![ex] =
                       initializePin(
                         [cleanupPin(@) EXCEPT
                            !.pin = pin, !.mode = mode, !.pinType = pinType,
                            !.lastValue = -1, !.debounceMs = debounceMs])]
               ELSE Append(configuredPins,
                           initializePin(NewPin(id, pin, pinType, mode,
                                                debounceMs)))
          /\ response' = Resp("OK", "Pin configured")

\* a readPin that samples the pin whatever its direction
PinReadAnyMode(id, level) ==
  LET i == findPinById(id) IN
  /\ PinFrame
  /\ UNCHANGED lastPinReadTime
  /\ IF i = 0
     THEN /\ response' = Resp("ERROR", "Pin not found")
          /\ io' = {}
          /\ UNCHANGED configuredPins
     ELSE /\ configuredPins' = [configuredPins EXCEPT ![i].lastValue = level]
          /\ io' = {Io("read", id, level)}
          /\ response' = Resp("OK", "")

\* action "readPin"; level is what digitalRead / analogRead returns
PinRead(id, level) ==
  LET i == findPinById(id) IN
  /\ PinFrame
  /\ UNCHANGED lastPinReadTime
  /\ IF i = 0
     THEN /\ response' = Resp("ERROR", "Pin not found")
          /\ io' = {}
          /\ UNCHANGED configuredPins
     ELSE IF configuredPins[i].mode # "input"
     THEN /\ response' = Resp("ERROR", "Pin is not configured as input")
          /\ io' = {}
          /\ UNCHANGED configuredPins
     ELSE /\ configuredPins' =
               [configuredPins EXCEPT ![i].lastValue =
                  IF configuredPins[i].pinType \in {"digital", "analog"}
                  THEN level ELSE 0]
          /\ io' = IF configuredPins[i].pinType \in {"digital", "analog"}
                   THEN {Io("read", id, level)} ELSE {}
          /\ response' = Resp("OK", "")

\* the pins with a DAC
DacPins == {25, 26}

\* action "writePin"
PinWrite(id, value, type) ==
  LET i == findPinById(id) IN
  /\ PinFrame
  /\ UNCHANGED lastPinReadTime
  /\ IF i = 0
     THEN /\ response' = Resp("ERROR", "Pin not found")
          /\ io' = {}
          /\ UNCHANGED configuredPins
     ELSE IF configuredPins[i].mode # "output"
     THEN /\ response' = Resp("ERROR", "Pin is not configured as output")
          /\ io' = {}
          /\ UNCHANGED configuredPins
     ELSE IF type = "analog" /\ configuredPins[i].pin \notin DacPins
     THEN /\ response' =
               Resp("ERROR", "Pin does not support analog output (DAC)")
          /\ io' = {}
          /\ UNCHANGED configuredPins
     ELSE /\ configuredPins' = [configuredPins EXCEPT ![i].lastValue = value]
          /\ io' = IF type \in {"digital", "pwm"}
                   THEN {Io("write", id, value)} ELSE {}
          /\ response' = Resp("OK", "Pin value updated")

\* action "remove": cleanupPin goes to the record *it denotes, which for a
\* pin that is not last in the vector shares its debouncer pointer with the
\* last pin
PinRemove(id) ==
  LET kept == RemoveIfKept(configuredPins, id) IN
  /\ PinFrame
  /\ io' = {}
  /\ IF Len(kept) # Len(configuredPins)
     THEN /\ configuredPins' =
               IF RemoveIfTail(configuredPins).id = id THEN kept
               ELSE [kept EXCEPT ![Len(kept)].debouncer =
                       IF @ = "none" THEN "none" ELSE "freed"]
          /\ lastPinReadTime' = [lastPinReadTime EXCEPT ![id] = 0]
          /\ response' = Resp("OK", "Pin removed")
     ELSE /\ response' = Resp("ERROR", "Pin not found for removal")
          /\ UNCHANGED <<configuredPins, lastPinReadTime>>

\* an action the handler does not know
PinUnknown ==
  /\ PinFrame
  /\ io' = {}
  /\ UNCHANGED <<configuredPins, lastPinReadTime>>
  /\ response' = Resp("ERROR", "Unknown pin action")

(***************************************************************************)
(* onWebSocketEvent (message_handler.cpp): a componentGroup that is none   *)
(* of pins, servos, steppers, system                                       *)
(***************************************************************************)
GroupUnknown ==
  /\ UNCHANGED <<configuredPins, configuredServos, configuredSteppers,
                 servoChannelUsed, engines, now, issued, events,
                 lastPinReadTime>>
  /\ io' = {}
  /\ response' = Resp("ERROR", "Unhandled component group")

(***************************************************************************)
(* The loop: one pass of the periodic updates after dt ms                  *)
(***************************************************************************)
Tick(dt, level) ==
  \E chg \in BOOLEAN :
    LET t  == (now + dt) % ClockMod
        pn == updatePinValues(configuredPins, lastPinReadTime, t, level,
                              chg, 1)
        st == updateStepperPositions(configuredSteppers, engines,
                                     pn.pins, events, t, level, 1)
    IN
    /\ now' = t
    /\ configuredPins' = pn.pins
    /\ lastPinReadTime' = pn.lastRead
    /\ configuredSteppers' = st.steppers
    /\ engines' = st.engines
    /\ configuredServos' = updateServoActionStatus(configuredServos, t)
    /\ events' = ServoEvents(configuredServos, st.events, t, 1)
    /\ io' = PinValueUpdates(configuredPins, lastPinReadTime, t, level, chg)
               \cup StepperPositionUpdates(configuredSteppers, engines,
                                           pn.pins, events, t, level)
    /\ UNCHANGED <<servoChannelUsed, response, issued>>

(***************************************************************************)
(* Requests the clients send in the model.  A profile names the values     *)
(* the requests of one specification carry.                                *)
(***************************************************************************)
ChannelReqs == {NoKey, 1, 16}
SensorLevels == {0}

\* two servos sharing the channel pool; no commandIds
PoolProfile ==
  [ids |-> ServoIds, cmds |-> {NoCmd}, pins |-> {13},
   minAngles |-> {0}, maxAngles |-> {180}, initialAngles |-> {90},
   channels |-> ChannelReqs, moveAngles |-> {90}, speeds |-> {NoKey},
   paramMin |-> {NoKey}, paramMax |-> {NoKey}, deltas |-> {0, 128}]

\* one servo; angle limits, speeds and a commandId
AngleProfile ==
  [ids |-> {"s1"}, cmds |-> {NoCmd, "c1"}, pins |-> {0, 13},
   minAngles |-> {0, 100}, maxAngles |-> {180}, initialAngles |-> {90},
   channels |-> {NoKey}, moveAngles |-> {-1, 95, 200}, speeds |-> {NoKey, 50},
   paramMin |-> {NoKey, 100}, paramMax |-> {NoKey}, deltas |-> {0, 64}]

\* one stepper; position limits, no commandIds
LimitProfile ==
  [sensors |-> {NoId}, paramSpeeds |-> {NoKey},
   ids |-> {"m1"}, cmds |-> {NoCmd}, pulPins |-> {0, 18},
   dirPins |-> {19}, engines |-> 1, limits |-> {<<0, 1>>, <<1, 0>>},
   positions |-> {NoKey, -1, 2}, steps |-> {NoKey, 1},
   newPositions |-> {NoKey, 2},
   paramMin |-> {NoKey, 1}, paramMax |-> {NoKey}, deltas |-> {0, 128}]

\* one stepper with fixed limits; commands with a commandId
CommandProfile ==
  [sensors |-> {NoId}, paramSpeeds |-> {NoKey},
   ids |-> {"m1"}, cmds |-> {NoCmd, "c1"}, pulPins |-> {18},
   dirPins |-> {19}, engines |-> 1, limits |-> {<<0, 1>>},
   positions |-> {2}, steps |-> {1}, newPositions |-> {0},
   paramMin |-> {NoKey}, paramMax |-> {NoKey}, deltas |-> {0, 128}]

\* one pin, used as a home sensor
PinProfile ==
  [ids |-> {"sens"}, pins |-> {4}, modes |-> {"input", "output"},
   pinTypes |-> {"digital"}, debounce |-> {0}, levels |-> {0, 1},
   values |-> {1}, types |-> {"digital"}]

\* one stepper that is sent home with a commandId
HomingProfile ==
  [sensors |-> {NoId, "sens"}, paramSpeeds |-> {NoKey},
   ids |-> {"m1"}, cmds |-> {NoCmd, "c1"}, pulPins |-> {18},
   dirPins |-> {19}, engines |-> 1, limits |-> {<<0, 2>>},
   positions |-> {NoKey}, steps |-> {NoKey}, newPositions |-> {NoKey},
   paramMin |-> {NoKey}, paramMax |-> {NoKey}, deltas |-> {0, 128}]

UsedChannels == {c \in 0..(MAX_SERVO_CHANNELS - 1) : servoChannelUsed[c]}

(***************************************************************************)
(* Specifications                                                          *)
(***************************************************************************)
Init ==
  /\ configuredPins = <<>>
  /\ configuredServos = <<>>
  /\ configuredSteppers = <<>>
  /\ servoChannelUsed = [c \in 0..(MAX_SERVO_CHANNELS - 1) |-> FALSE]
  /\ engines = <<>>
  /\ now = 0
  /\ response = Resp("NONE", "")
  /\ issued = [c \in CmdIds |-> NotIssued]
  /\ events = {}
  /\ lastPinReadTime = [id \in PinIds |-> 0]
  /\ io = {}

\* the servo requests of profile p
ServoRequest(p) ==
  /\ Cardinality(UsedChannels) <= MaxChannelsInUse
  /\ \/ \E id \in p.ids, pin \in p.pins, mn \in p.minAngles,
           mx \in p.maxAngles, ia \in p.initialAngles, ch \in p.channels,
           ok \in BOOLEAN :
          ServoConfigure(id, TRUE, pin, mn, mx, ia, ch, ok)
     \/ \E id \in p.ids, a \in p.moveAngles, sp \in p.speeds, c \in p.cmds,
           ok \in BOOLEAN :
          ServoMove(id, a, sp, c, ok)
     \/ \E id \in p.ids : ServoDetach(id)
     \/ \E id \in p.ids, mn \in p.paramMin, mx \in p.paramMax :
          ServoSetParams(id, mn, mx)
     \/ \E id \in p.ids : ServoRemove(id)
     \/ \E id \in p.ids, isControl \in BOOLEAN : ServoUnknown(id, isControl)

\* the stepper requests of profile p
StepperRequest(p) ==
  \/ \E id \in p.ids, pul \in p.pulPins, dir \in p.dirPins,
        lim \in p.limits, u \in UninitStepperFields, h \in p.sensors :
       StepperConfigure(id, TRUE, pul, dir, lim[1], lim[2], u, p.engines, h)
  \/ \E id \in p.ids : StepperMissing(id)
  \/ \E id \in p.ids, mn \in p.paramMin, mx \in p.paramMax,
        sp \in p.paramSpeeds :
       StepperSetParams(id, mn, mx, sp)
  \/ \E id \in p.ids, v \in p.positions, c \in p.cmds : StepperMove(id, v, c)
  \/ \E id \in p.ids, v \in p.steps, c \in p.cmds : StepperStep(id, v, c)
  \/ \E id \in p.ids, c \in p.cmds : StepperHome(id, c)
  \/ \E id \in p.ids : StepperStop(id)
  \/ \E id \in p.ids, v \in p.newPositions :
       StepperSetCurrentPosition(id, v)
  \/ \E id \in p.ids : StepperRemove(id)
  \/ \E id \in p.ids, isControl \in BOOLEAN : StepperUnknown(id, isControl)

\* the pin requests of profile p
PinRequest(p) ==
  \/ \E id \in p.ids, pin \in p.pins, mode \in p.modes, ty \in p.pinTypes,
        db \in p.debounce :
       PinConfigure(id, TRUE, pin, mode, ty, db)
  \/ \E id \in p.ids, level \in p.levels : PinRead(id, level)
  \/ \E id \in p.ids, v \in p.values, ty \in p.types : PinWrite(id, v, ty)
  \/ \E id \in p.ids : PinRemove(id)
  \/ PinUnknown

\* the loop of profile p: the time between two passes
Scheduler(p) == \E dt \in p.deltas, level \in SensorLevels : Tick(dt, level)

Motion == \E h \in 1..Len(engines) : EngineStep(h)

PoolNext == ServoRequest(PoolProfile) \/ Scheduler(PoolProfile)

PoolSpec == Init /\ [][PoolNext]_vars

AngleNext == ServoRequest(AngleProfile) \/ Scheduler(AngleProfile)

AngleSpec == Init /\ [][AngleNext]_vars

LimitNext ==
  StepperRequest(LimitProfile) \/ Motion \/ Scheduler(LimitProfile)

LimitSpec == Init /\ [][LimitNext]_vars

CommandNext ==
  StepperRequest(CommandProfile) \/ Motion \/ Scheduler(CommandProfile)

CommandSpec == Init /\ [][CommandNext]_vars

\* the loop while the home sensor may read either level
SensorScheduler(p, q) ==
  \E dt \in p.deltas, level \in q.levels : Tick(dt, level)

HomingNext ==
  \/ PinRequest(PinProfile)
  \/ StepperRequest(HomingProfile)
  \/ Motion
  \/ SensorScheduler(HomingProfile, PinProfile)

HomingSpec == Init /\ [][HomingNext]_vars

\* the same under fair scheduling
FairHomingSpec ==
  /\ Init
  /\ [][HomingNext]_vars
  /\ WF_vars(\E level \in PinProfile.levels : Tick(128, level))
  /\ WF_vars(Motion)

\* one stepper with fixed limits under fair scheduling: the loop keeps
\* running and time passes, and a running engine keeps stepping
FairCommandSpec ==
  /\ Init
  /\ [][CommandNext]_vars
  /\ WF_vars(\E level \in SensorLevels : Tick(128, level))
  /\ WF_vars(Motion)

\* two steppers on an engine with room for two axes; no commandIds
AxisProfile ==
  [sensors |-> {NoId}, paramSpeeds |-> {NoKey},
   ids |-> StepperIds, cmds |-> {NoCmd}, pulPins |-> {18},
   dirPins |-> {19}, engines |-> 2, limits |-> {<<0, 1>>},
   positions |-> {1}, steps |-> {NoKey}, newPositions |-> {NoKey},
   paramMin |-> {NoKey}, paramMax |-> {NoKey}, deltas |-> {128}]

AxisNext ==
  StepperRequest(AxisProfile) \/ Motion \/ Scheduler(AxisProfile)

AxisSpec == Init /\ [][AxisNext]_vars

\* two pins, two servos and two steppers that are configured, configured
\* again and removed, the servos always attaching; a servo move, which only
\* a later configure of the same servo separates from the current angle
RegistryProfile ==
  [pins |-> {4}, modes |-> {"input"}, pinTypes |-> {"digital"},
   debounce |-> {0}, servoPins |-> {13}, initialAngles |-> {90},
   moveAngles |-> {95}, pulPins |-> {18}, dirPins |-> {19},
   limits |-> {<<0, 1>>}, engines |-> 2]

RegistryPinRequest(p) ==
  \/ \E id \in PinIds, pin \in p.pins, mode \in p.modes, ty \in p.pinTypes,
        db \in p.debounce :
       PinConfigure(id, TRUE, pin, mode, ty, db)
  \/ \E id \in PinIds : PinRemove(id)

RegistryServoRequest(p) ==
  /\ Cardinality(UsedChannels) <= MaxChannelsInUse
  /\ \/ \E id \in ServoIds, pin \in p.servoPins, ia \in p.initialAngles :
          ServoConfigure(id, TRUE, pin, DefaultMinAngle, DefaultMaxAngle, ia,
                         NoKey, TRUE)
     \/ \E id \in ServoIds, a \in p.moveAngles :
          ServoMove(id, a, NoKey, NoCmd, TRUE)
     \/ \E id \in ServoIds : ServoRemove(id)

RegistryStepperRequest(p) ==
  \/ \E id \in StepperIds, pul \in p.pulPins, dir \in p.dirPins,
        lim \in p.limits, u \in UninitStepperFields :
       StepperConfigure(id, TRUE, pul, dir, lim[1], lim[2], u, p.engines,
                        NoId)
  \/ \E id \in StepperIds : StepperRemove(id)

RegistryNext ==
  \/ RegistryPinRequest(RegistryProfile)
  \/ RegistryServoRequest(RegistryProfile)
  \/ RegistryStepperRequest(RegistryProfile)

RegistrySpec == Init /\ [][RegistryNext]_vars

\* two pins that change direction and debounce interval, are read, written,
\* polled and removed
IoProfile ==
  [ids |-> PinIds, pins |-> {4}, modes |-> {"input", "output"},
   pinTypes |-> {"digital"}, debounce |-> {0, 5}, levels |-> {0, 1},
   values |-> {1}, types |-> {"digital", "analog"}, deltas |-> {128}]

PinNext == PinRequest(IoProfile) \/ SensorScheduler(IoProfile, IoProfile)

PinSpec == Init /\ [][PinNext]_vars

\* one pin, one servo and one stepper that are configured, moved, detached
\* and stopped; requests whose componentGroup, action or command the
\* handlers do not know
RoutingProfile ==
  [pinIds |-> {"sens"}, servoIds |-> {"s1"}, stepperIds |-> {"m1"},
   pins |-> {4}, servoPins |-> {13}, pulPins |-> {18}, dirPins |-> {19},
   limits |-> {<<0, 1>>}, positions |-> {1}, moveAngles |-> {95},
   engines |-> 1, deltas |-> {128}]

RoutingPinRequest(p) ==
  \/ \E id \in p.pinIds, pin \in p.pins :
       PinConfigure(id, TRUE, pin, "input", "digital", 0)
  \/ PinUnknown

RoutingServoRequest(p) ==
  \/ \E id \in p.servoIds, pin \in p.servoPins, ok \in BOOLEAN :
       ServoConfigure(id, TRUE, pin, DefaultMinAngle, DefaultMaxAngle,
                      DefaultServoAngle, NoKey, ok)
  \/ \E id \in p.servoIds, a \in p.moveAngles, ok \in BOOLEAN :
       ServoMove(id, a, NoKey, NoCmd, ok)
  \/ \E id \in p.servoIds : ServoDetach(id)
  \/ \E id \in p.servoIds, isControl \in BOOLEAN : ServoUnknown(id, isControl)

RoutingStepperRequest(p) ==
  \/ \E id \in p.stepperIds, pul \in p.pulPins, dir \in p.dirPins,
        lim \in p.limits, u \in UninitStepperFields :
       StepperConfigure(id, TRUE, pul, dir, lim[1], lim[2], u, p.engines,
                        NoId)
  \/ \E id \in p.stepperIds : StepperMissing(id)
  \/ \E id \in p.stepperIds, v \in p.positions : StepperMove(id, v, NoCmd)
  \/ \E id \in p.stepperIds : StepperStop(id)
  \/ \E id \in p.stepperIds, isControl \in BOOLEAN :
       StepperUnknown(id, isControl)

RoutingNext ==
  \/ RoutingPinRequest(RoutingProfile)
  \/ RoutingServoRequest(RoutingProfile)
  \/ RoutingStepperRequest(RoutingProfile)
  \/ GroupUnknown
  \/ Motion
  \/ Scheduler(RoutingProfile)

RoutingSpec == Init /\ [][RoutingNext]_vars


\* one servo whose bounds are changed by setParams while it moves
ParamsProfile ==
  [ids |-> {"s1"}, cmds |-> {NoCmd, "c1"}, pins |-> {13},
   minAngles |-> {0}, maxAngles |-> {180}, initialAngles |-> {90},
   channels |-> {NoKey}, moveAngles |-> {95}, speeds |-> {NoKey},
   paramMin |-> {NoKey, 100}, paramMax |-> {NoKey, 90}, deltas |-> {64}]

ParamsNext == ServoRequest(ParamsProfile) \/ Scheduler(ParamsProfile)

ParamsSpec == Init /\ [][ParamsNext]_vars


\* one stepper whose position is redefined at rest and during a move
ResyncProfile ==
  [sensors |-> {NoId}, paramSpeeds |-> {NoKey},
   ids |-> {"m1"}, cmds |-> {NoCmd}, pulPins |-> {18},
   dirPins |-> {19}, engines |-> 1, limits |-> {<<0, 1>>},
   positions |-> {2}, steps |-> {1}, newPositions |-> {NoKey, 2},
   paramMin |-> {NoKey}, paramMax |-> {NoKey}, deltas |-> {128}]

ResyncNext ==
  StepperRequest(ResyncProfile) \/ Motion \/ Scheduler(ResyncProfile)

ResyncSpec == Init /\ [][ResyncNext]_vars


\* one stepper that receives moves under two commandIds, nothing that
\* cancels a move; the loop and the engine run under fair scheduling
OverwriteProfile ==
  [ids |-> {"m1"}, cmds |-> CmdIds, pulPins |-> {18}, dirPins |-> {19},
   engines |-> 1, limits |-> {<<0, 1>>}, positions |-> {0, 1},
   deltas |-> {128}]

OverwriteRequest(p) ==
  \/ \E id \in p.ids, pul \in p.pulPins, dir \in p.dirPins,
        lim \in p.limits, u \in UninitStepperFields :
       StepperConfigure(id, TRUE, pul, dir, lim[1], lim[2], u, p.engines,
                        NoId)
  \/ \E id \in p.ids, v \in p.positions, c \in p.cmds : StepperMove(id, v, c)

OverwriteNext ==
  OverwriteRequest(OverwriteProfile) \/ Motion \/ Scheduler(OverwriteProfile)

FairOverwriteSpec ==
  /\ Init
  /\ [][OverwriteNext]_vars
  /\ WF_vars(\E level \in SensorLevels : Tick(128, level))
  /\ WF_vars(Motion)


\* one stepper whose speed is set by setParams, next to a home sensor
SpeedProfile ==
  [sensors |-> {NoId}, paramSpeeds |-> {NoKey, 0, 1000},
   ids |-> {"m1"}, cmds |-> {NoCmd}, pulPins |-> {18},
   dirPins |-> {19}, engines |-> 1, limits |-> {<<0, 1>>},
   positions |-> {1}, steps |-> {NoKey}, newPositions |-> {NoKey},
   paramMin |-> {NoKey}, paramMax |-> {NoKey}, deltas |-> {128}]

SpeedNext ==
  \/ PinRequest(PinProfile)
  \/ StepperRequest(SpeedProfile)
  \/ Motion
  \/ SensorScheduler(SpeedProfile, PinProfile)

SpeedSpec == Init /\ [][SpeedNext]_vars

(***************************************************************************)
(* Claims                                                                  *)
(***************************************************************************)
Attached(s) == s.attached /\ s.channel >= 0

\* C1: no two registered, attached servos hold the same PWM channel.
C1_ChannelsInjective ==
  \A i, j \in 1..Len(configuredServos) :
    (i # j /\ Attached(configuredServos[i]) /\ Attached(configuredServos[j]))
      => configuredServos[i].channel # configuredServos[j].channel

\* C2: a detach or remove of a servo that held channel c leaves channel c
\* marked free in the pool, wherever the servo stands in the registry.
C2_ReleaseOnDetachOrRemove ==
  [][\A id \in ServoIds :
       LET i == findServoById(id) IN
       (/\ i # 0
        /\ configuredServos[i].channel >= 0
        /\ (ServoDetach(id) \/ ServoRemove(id)))
         => ~servoChannelUsed'[configuredServos[i].channel]]_vars

\* C3: every registered servo has minAngle <= currentAngle <= maxAngle.
C3_CurrentAngleInRange ==
  \A i \in 1..Len(configuredServos) :
    /\ configuredServos[i].minAngle <= configuredServos[i].currentAngle
    /\ configuredServos[i].currentAngle <= configuredServos[i].maxAngle

\* C4: a servo move whose angle is outside [minAngle, maxAngle] is answered
\* with an error and leaves the servo's record as it was, also when the
\* request carries a speed and a commandId.
C4_RejectedMoveChangesNothing ==
  [][\A id \in AngleProfile.ids, a \in AngleProfile.moveAngles,
        sp \in AngleProfile.speeds, c \in AngleProfile.cmds, ok \in BOOLEAN :
       LET i == findServoById(id) IN
       (/\ i # 0
        /\ ~isValidAngle(configuredServos[i], a)
        /\ ServoMove(id, a, sp, c, ok))
         => /\ response'.status = "ERROR"
            /\ configuredServos' = configuredServos
            /\ servoChannelUsed' = servoChannelUsed]_vars

InLimits(st, p) == st.minPosition <= p /\ p <= st.maxPosition

\* C5: after an accepted stepper move, or a step that issues an engine
\* move, targetPosition and the engine's target lie within
\* [minPosition, maxPosition].
C5_TargetWithinLimits ==
  [][\A id \in LimitProfile.ids, c \in LimitProfile.cmds :
       LET i == findStepperById(id) IN
       (/\ i # 0
        /\ \/ \E v \in LimitProfile.positions \ {NoKey} : StepperMove(id, v, c)
           \/ \E v \in LimitProfile.steps \ {NoKey} :
                /\ StepperStep(id, v, c)
                /\ engines' # engines)
         => LET st == configuredSteppers'[i] IN
            /\ InLimits(st, st.targetPosition)
            /\ InLimits(st, engines'[st.stepper].target)]_vars

\* C6: every registered stepper has targetPosition and currentPosition
\* within [minPosition, maxPosition].
C6_PositionsWithinLimits ==
  \A i \in 1..Len(configuredSteppers) :
    /\ InLimits(configuredSteppers[i], configuredSteppers[i].targetPosition)
    /\ InLimits(configuredSteppers[i], configuredSteppers[i].currentPosition)

\* C7: every accepted command that carries a commandId is eventually
\* followed by an actionComplete event for that commandId.
C7_EveryCommandCompletes ==
  \A c \in CmdIds :
    (issued[c].accepted) ~> (EventCount(events, c) >= 1)

\* C8: no commandId receives more than one actionComplete event.
C8_AtMostOneCompletion ==
  \A c \in CmdIds : EventCount(events, c) <= 1

\* C9: an actionComplete with success = true for a stepper move or step
\* reports the commanded (clamped) target as the position reached.
C9_SuccessMeansTargetReached ==
  \A e \in events :
    (/\ e.success
     /\ e.value # NoKey
     /\ issued[e.commandId].kind \in {"move", "step", "stepZero"})
      => e.value = issued[e.commandId].target

\* C10: a step that clamps to zero net movement and carries a commandId
\* has exactly one actionComplete event: the one sent at once.
C10_ZeroStepCompletesOnce ==
  \A c \in CmdIds :
    issued[c].kind = "stepZero" => EventCount(events, c) = 1

\* C11: a servo move that carries a commandId and is rejected (angle out of
\* range, or the re-attachment fails) has exactly one failure notification
\* for that commandId, and the servo does not keep the commandId as its
\* pendingCommandId.
C11_RejectedMoveNotifiedOnce ==
  [][\A id \in AngleProfile.ids, a \in AngleProfile.moveAngles,
        sp \in AngleProfile.speeds, c \in AngleProfile.cmds \ {NoCmd},
        ok \in BOOLEAN :
       LET i == findServoById(id) IN
       (/\ i # 0
        /\ a >= 0
        /\ ServoMove(id, a, sp, c, ok)
        /\ response'.status = "ERROR")
         => /\ EventCount(events', c) = 1
            /\ \A e \in events' : e.commandId = c => ~e.success
            /\ configuredServos'[i].pendingCommandId # c]_vars

\* C12: when a stepper stop command has been handled, the engine is
\* stopped, isActionPending and isHoming are false and targetPosition is
\* the engine's current position.
C12_StopClearsAndResyncs ==
  [][\A id \in CommandProfile.ids :
       LET i == findStepperById(id) IN
       (i # 0 /\ StepperStop(id))
         => LET st == configuredSteppers'[i]
                e  == engines'[st.stepper]
            IN  /\ ~e.running
                /\ ~st.isActionPending
                /\ ~st.isHoming
                /\ st.targetPosition = e.pos]_vars

\* the stepper has no home sensor, or its sensor id names no registered
\* input pin
NoValidSensor(st) ==
  \/ st.homeSensorId = NoId
  \/ LET k == FindIndex(configuredPins, st.homeSensorId)
     IN  k = 0 \/ configuredPins[k].mode # "input"

\* C17: home on a stepper without a valid home sensor fails: the answer is
\* an error, no engine move is issued, and isHoming and isActionPending
\* keep their values.
C17_HomeWithoutSensorFails ==
  [][\A id \in CommandProfile.ids, c \in CommandProfile.cmds :
       LET i == findStepperById(id) IN
       (/\ i # 0
        /\ NoValidSensor(configuredSteppers[i])
        /\ StepperHome(id, c))
         => /\ response'.status = "ERROR"
            /\ engines' = engines
            /\ configuredSteppers'[i].isHoming = configuredSteppers[i].isHoming
            /\ configuredSteppers'[i].isActionPending =
                 configuredSteppers[i].isActionPending]_vars

\* C18: a servo configure that requests a channel held by a servo with
\* another id is rejected with an error and changes neither the registry
\* nor the channel pool.
C18_ChannelInUseRejected ==
  [][\A id \in PoolProfile.ids, pin \in PoolProfile.pins,
        ch \in PoolProfile.channels \ {NoKey}, ok \in BOOLEAN :
       (/\ \E j \in 1..Len(configuredServos) :
             /\ configuredServos[j].id # id
             /\ configuredServos[j].channel = ch
        /\ ServoConfigure(id, TRUE, pin, 0, 180, 90, ch, ok))
         => /\ response'.status = "ERROR"
            /\ configuredServos' = configuredServos
            /\ servoChannelUsed' = servoChannelUsed]_vars

\* C19: a servo configure that leaves the servo without a PWM channel or
\* unattached is answered with an error, and the servo is then detached
\* and holds no channel.
C19_FailedConfigureReported ==
  [][\A id \in PoolProfile.ids, pin \in PoolProfile.pins,
        ch \in PoolProfile.channels, ok \in BOOLEAN :
       LET i == FindIndex(configuredServos', id) IN
       (/\ ServoConfigure(id, TRUE, pin, 0, 180, 90, ch, ok)
        /\ i # 0
        /\ ~configuredServos'[i].attached)
         => /\ response'.status = "ERROR"
            /\ configuredServos'[i].channel = NoChannel]_vars

\* C13: a stop on a stepper, or a detach on a servo, whose action is
\* pending clears the pending flag within the command, and no later loop
\* pass broadcasts an actionComplete for the command it cancelled.
C13_CancelledMoveStaysSilent ==
  [][/\ \A id \in StepperIds :
          LET i == findStepperById(id) IN
          (/\ i # 0
           /\ configuredSteppers[i].isActionPending
           /\ StepperStop(id))
            => ~configuredSteppers'[i].isActionPending
     /\ \A id \in ServoIds :
          LET i == findServoById(id) IN
          (/\ i # 0
           /\ configuredServos[i].isActionPending
           /\ ServoDetach(id))
            => ~configuredServos'[i].isActionPending
     /\ \A e \in events' \ events : ~issued[e.commandId].cancelled]_vars

\* stepper i has been sent home with commandId c while an input pin was
\* registered, and neither a completion nor a stop or remove has followed
Homing(i, c) ==
  /\ issued[c].kind = "home"
  /\ issued[c].accepted
  /\ issued[c].comp = configuredSteppers[i].id
  /\ ~issued[c].cancelled
  /\ EventCount(events, c) = 0

\* C14: while a stepper is homing, the loop pass that reads the sensor at
\* its active level stops the engine, sets the engine position,
\* currentPosition and targetPosition to homePositionOffset, sets isHomed,
\* clears isHoming and isActionPending, and broadcasts exactly one
\* actionComplete with success = true for the command.
C14_SensorEndsHoming ==
  [][\A dt \in HomingProfile.deltas \ {0}, level \in PinProfile.levels,
        c \in CmdIds, i \in 1..Len(configuredSteppers) :
       (/\ Homing(i, c)
        /\ SensorRegistered(configuredPins)
        /\ level = configuredSteppers[i].homeSensorPinActiveState
        /\ Tick(dt, level))
         => LET st == configuredSteppers'[i]
                e  == engines'[st.stepper]
            IN  /\ ~e.running
                /\ e.pos = st.homePositionOffset
                /\ st.currentPosition = st.homePositionOffset
                /\ st.targetPosition = st.homePositionOffset
                /\ st.isHomed
                /\ ~st.isHoming
                /\ ~st.isActionPending
                /\ EventCount(events', c) = 1
                /\ \A ev \in events' : ev.commandId = c => ev.success]_vars

\* C15: while a stepper is homing, the loop pass that finds no registered
\* input pin for the sensor (removed, or reconfigured as output) stops the
\* engine, clears isHoming and isActionPending, and broadcasts exactly one
\* actionComplete with success = false and error "Home sensor error".
C15_LostSensorAbortsHoming ==
  [][\A dt \in HomingProfile.deltas \ {0}, level \in PinProfile.levels,
        c \in CmdIds, i \in 1..Len(configuredSteppers) :
       (/\ Homing(i, c)
        /\ ~SensorRegistered(configuredPins)
        /\ Tick(dt, level))
         => LET st == configuredSteppers'[i]
                e  == engines'[st.stepper]
            IN  /\ ~e.running
                /\ ~st.isHoming
                /\ ~st.isActionPending
                /\ EventCount(events', c) = 1
                /\ \A ev \in events' :
                     ev.commandId = c =>
                       ~ev.success /\ ev.error = "Home sensor error"]_vars

\* C16: every homing sequence ends: a home command that was accepted with
\* a commandId is eventually followed by a completion event for it (or by
\* the stop or remove that ends it), also when the sensor never reads
\* its active level.
C16_HomingEnds ==
  \A c \in CmdIds :
    (issued[c].kind = "home" /\ issued[c].accepted)
      ~> (EventCount(events, c) >= 1 \/ issued[c].cancelled)

\* C20: the remove of a servo or of a pin leaves every other registered
\* entity as it was: the same record, with its PWM channel still marked as
\* before in the pool, or with its debouncer as before.
C20_RemoveTouchesNoOther ==
  [][/\ \A id \in ServoIds :
          (findServoById(id) # 0 /\ ServoRemove(id))
            => \A j \in 1..Len(configuredServos) :
                 configuredServos[j].id # id =>
                   LET k == FindIndex(configuredServos',
                                      configuredServos[j].id)
                       ch == configuredServos[j].channel
                   IN  /\ k # 0
                       /\ configuredServos'[k] = configuredServos[j]
                       /\ ch >= 0 =>
                            servoChannelUsed'[ch] = servoChannelUsed[ch]
     /\ \A id \in PinIds :
          (findPinById(id) # 0 /\ PinRemove(id))
            => \A j \in 1..Len(configuredPins) :
                 configuredPins[j].id # id =>
                   LET k == FindIndex(configuredPins', configuredPins[j].id)
                   IN  /\ k # 0
                       /\ configuredPins'[k] = configuredPins[j]]_vars

\* C21: the remove of a stepper force-stops the engine of the removed
\* stepper, and leaves the engine of every other registered stepper as it
\* was, wherever the removed stepper stands in the registry.
C21_RemoveStopsOwnEngine ==
  [][\A id \in StepperIds :
       LET i == findStepperById(id) IN
       (i # 0 /\ StepperRemove(id))
         => /\ ~engines'[configuredSteppers[i].stepper].running
            /\ \A j \in 1..Len(configuredSteppers) :
                 j # i =>
                   engines'[configuredSteppers[j].stepper] =
                     engines[configuredSteppers[j].stepper]]_vars

UniqueIds(reg) ==
  \A i, j \in 1..Len(reg) : i # j => reg[i].id # reg[j].id

IdsOf(reg) == [k \in 1..Len(reg) |-> reg[k].id]

\* C22: each registry holds at most one entity per identifier, and a
\* configure of an identifier that is registered leaves the registry with
\* the same identifiers at the same places.
C22_OneEntityPerId ==
  [][/\ UniqueIds(configuredPins')
     /\ UniqueIds(configuredServos')
     /\ UniqueIds(configuredSteppers')
     /\ \A id \in PinIds :
          (/\ findPinById(id) # 0
           /\ \E pin \in RegistryProfile.pins, mode \in RegistryProfile.modes,
                 ty \in RegistryProfile.pinTypes,
                 db \in RegistryProfile.debounce :
                PinConfigure(id, TRUE, pin, mode, ty, db))
            => IdsOf(configuredPins') = IdsOf(configuredPins)
     /\ \A id \in ServoIds :
          (/\ findServoById(id) # 0
           /\ \E pin \in RegistryProfile.servoPins,
                 ia \in RegistryProfile.initialAngles :
                ServoConfigure(id, TRUE, pin, DefaultMinAngle,
                               DefaultMaxAngle, ia, NoKey, TRUE))
            => IdsOf(configuredServos') = IdsOf(configuredServos)
     /\ \A id \in StepperIds :
          (/\ findStepperById(id) # 0
           /\ \E pul \in RegistryProfile.pulPins,
                 dir \in RegistryProfile.dirPins,
                 lim \in RegistryProfile.limits, u \in UninitStepperFields :
                StepperConfigure(id, TRUE, pul, dir, lim[1], lim[2], u,
                                 RegistryProfile.engines, NoId))
            => IdsOf(configuredSteppers') = IdsOf(configuredSteppers)]_vars

\* C22, its case: all three registries are full, and a servo that had been
\* moved has been configured again (its current angle is the configured one,
\* its target still the one of the move).
C22_ConfiguredAgain ==
  /\ Len(configuredPins) = Cardinality(PinIds)
  /\ Len(configuredSteppers) = Cardinality(StepperIds)
  /\ Len(configuredServos) = Cardinality(ServoIds)
  /\ \E i \in 1..Len(configuredServos) :
       /\ configuredServos[i].targetAngle \in RegistryProfile.moveAngles
       /\ configuredServos[i].currentAngle \in RegistryProfile.initialAngles
       /\ configuredServos[i].isActionPending

\* C23: a registered pin has a live debouncer exactly if its mode is input,
\* its type is digital and its debounce interval is above zero.
C23_DebouncerIffDebouncedInput ==
  \A i \in 1..Len(configuredPins) :
    (configuredPins[i].debouncer = "live")
      <=> (/\ configuredPins[i].mode = "input"
           /\ configuredPins[i].pinType = "digital"
           /\ configuredPins[i].debounceMs > 0)

PinAccesses(msgs) == {m \in msgs : m.kind \in {"read", "write"}}

\* C27: readPin on an unknown id or on a pin that is not an input, and
\* writePin on an unknown id, on a pin that is not an output, or with type
\* analog on a pin without DAC, answer with an error, access no pin and
\* leave every pin record, lastValue included, as it was.
C27_RefusedPinAccessDoesNothing ==
  [][\A id \in IoProfile.ids :
       LET i == findPinById(id) IN
       /\ \A level \in IoProfile.levels :
            (/\ PinRead(id, level)
             /\ (i = 0 \/ configuredPins[i].mode # "input"))
              => /\ response'.status = "ERROR"
                 /\ PinAccesses(io') = {}
                 /\ configuredPins' = configuredPins
       /\ \A v \in IoProfile.values, ty \in IoProfile.types :
            (/\ PinWrite(id, v, ty)
             /\ \/ i = 0
                \/ configuredPins[i].mode # "output"
                \/ ty = "analog" /\ configuredPins[i].pin \notin DacPins)
              => /\ response'.status = "ERROR"
                 /\ PinAccesses(io') = {}
                 /\ configuredPins' = configuredPins]_vars

\* C27, its case: an analog write to an output pin without DAC has been
\* refused, and the pin still holds the value written before.
C27_AnalogWriteRefused ==
  /\ response.status = "ERROR"
  /\ response.text = "Pin does not support analog output (DAC)"
  /\ \E i \in 1..Len(configuredPins) :
       /\ configuredPins[i].mode = "output"
       /\ configuredPins[i].pin \notin DacPins
       /\ configuredPins[i].lastValue \in IoProfile.values

PinValueEvents(msgs, id) == {m \in msgs : m.kind = "pinValue" /\ m.id = id}

\* C30: in a poll, a digital input pin without a debouncer emits a value
\* event exactly if the level read differs from its lastValue, the event
\* carries the level read, and after the poll its lastValue is the level
\* read; an output pin emits no value event.
C30_PollReportsChanges ==
  [][\A dt \in IoProfile.deltas, level \in IoProfile.levels :
       Tick(dt, level)
         => \A i \in 1..Len(configuredPins) :
              LET p == configuredPins[i] IN
              /\ (/\ p.mode = "input"
                  /\ p.pinType = "digital"
                  /\ p.debouncer = "none")
                   => /\ (PinValueEvents(io', p.id) # {})
                           <=> (level # p.lastValue)
                      /\ \A m \in PinValueEvents(io', p.id) : m.value = level
                      /\ configuredPins'[i].lastValue = level
              /\ p.mode = "output" => PinValueEvents(io', p.id) = {}]_vars

\* C30, its case: a poll has just reported the new level of an input pin
\* without debouncer, next to a registered output pin.
C30_ChangeReported ==
  \E i, j \in 1..Len(configuredPins) :
    /\ configuredPins[i].mode = "input"
    /\ configuredPins[i].debouncer = "none"
    /\ Io("pinValue", configuredPins[i].id, configuredPins[i].lastValue) \in io
    /\ configuredPins[j].mode = "output"

\* the value the unknown requests of the model carry as componentGroup,
\* action or command
UnknownValue == "calibrate"

\* the entity, pool and pending state of the system
SystemState ==
  <<configuredPins, configuredServos, configuredSteppers, servoChannelUsed,
    engines, lastPinReadTime>>

\* C24: a request whose componentGroup, action or command is not recognised
\* is answered with an error that names the unrecognised value, and changes
\* no entity, pool or pending state.
C24_UnknownValueNamedInError ==
  [][(\/ GroupUnknown
      \/ PinUnknown
      \/ \E id \in RoutingProfile.servoIds, isControl \in BOOLEAN :
           ServoUnknown(id, isControl)
      \/ \E id \in RoutingProfile.stepperIds, isControl \in BOOLEAN :
           StepperUnknown(id, isControl))
       => /\ response'.status = "ERROR"
          /\ UnknownValue \in response'.names
          /\ SystemState' = SystemState]_vars

\* C25: every actionComplete event of a commandId is broadcast after the
\* answer to the command that carried it, also for a step that clamps to
\* zero net steps.
C25_AnswerBeforeCompletion ==
  \A e \in events : e.acked

\* C28: a loop pass that finds a stepper's engine at a position other than
\* the one the record holds as last reported, 100 ms or more after the last
\* report, broadcasts a position update with the engine's position; so the
\* resting position of a completed move is broadcast.
C28_PositionChangeReported ==
  [][\A dt \in CommandProfile.deltas, level \in SensorLevels :
       Tick(dt, level)
         => \A i \in 1..Len(configuredSteppers) :
              LET st == configuredSteppers[i]
                  e  == engines[st.stepper]
                  t  == (now + dt) % ClockMod
              IN  (/\ e.pos # st.currentPosition
                   /\ USub(t, st.lastPositionReportTime)
                        >= stepperPositionReportInterval)
                    => Io("position", st.id, e.pos) \in io']_vars

\* servo s has been moved since the last loop pass: its action is pending
\* and the loop has not stamped it yet (the loop stamps with its clock,
\* which is 0 only when the counter wraps)
MovedSinceLastPass(s) == s.isActionPending /\ s.moveStartTime = 0 /\ now # 0

\* C29: the loop signals the completion of an accepted servo move (clears
\* isActionPending and broadcasts the event of a pending commandId) at the
\* first pass at which the time since the move is at least
\* max(50, floor(7.7777 * |target - previous| * 100 / speed)) ms and at no
\* earlier pass.  Stated for the first pass after the move, dt ms later.
C29_CompletionAfterDuration ==
  [][\A dt \in AngleProfile.deltas, level \in SensorLevels :
       Tick(dt, level)
         => \A i \in 1..Len(configuredServos) :
              LET s == configuredServos[i] IN
              MovedSinceLastPass(s)
                => /\ (~configuredServos'[i].isActionPending)
                        <=> (dt >= ServoMoveDuration(s))
                   /\ (dt >= ServoMoveDuration(s) /\ s.pendingCommandId # NoId)
                        => EventCount(events', s.pendingCommandId)
                             > EventCount(events, s.pendingCommandId)]_vars

\* C26: a detach of a servo that is not attached, and a stop of a stepper
\* whose engine is not running, answer OK and leave the entities, the
\* channel pool, the engines and the pending flags as they were.
C26_DetachAndStopIdempotent ==
  [][/\ \A id \in RoutingProfile.servoIds :
          LET i == findServoById(id) IN
          (/\ i # 0
           /\ ~configuredServos[i].attached
           /\ ServoDetach(id))
            => /\ response'.status = "OK"
               /\ SystemState' = SystemState
               /\ events' = events
     /\ \A id \in RoutingProfile.stepperIds :
          LET i == findStepperById(id) IN
          (/\ i # 0
           /\ ~engines[configuredSteppers[i].stepper].running
           /\ StepperStop(id))
            => /\ response'.status = "OK"
               /\ SystemState' = SystemState
               /\ events' = events]_vars

\* C26, its case: a servo that was moved and then detached (the state a
\* second detach leaves as it is), next to a stepper that was moved and whose
\* engine has stopped; the last request was answered OK.
C26_DetachedAndStopped ==
  /\ response.status = "OK"
  /\ \E i \in 1..Len(configuredServos) :
       /\ ~configuredServos[i].attached
       /\ configuredServos[i].channel = NoChannel
       /\ configuredServos[i].targetAngle \in RoutingProfile.moveAngles
  /\ \E i \in 1..Len(configuredSteppers) :
       /\ ~engines[configuredSteppers[i].stepper].running
       /\ configuredSteppers[i].targetPosition \in RoutingProfile.positions


\* C31: a setParams request for a registered servo changes nothing of the
\* servo but minAngle and maxAngle (the model's bounds): currentAngle,
\* targetAngle, isActionPending, pendingCommandId, channel and attachment
\* stay, the channel pool stays, and no angle is written to the servo.
C31_SetParamsKeepsState ==
  [][\A id \in ParamsProfile.ids, mn \in ParamsProfile.paramMin,
        mx \in ParamsProfile.paramMax :
       LET i == findServoById(id) IN
       (i # 0 /\ ServoSetParams(id, mn, mx))
         => /\ configuredServos' =
                 [configuredServos EXCEPT
                    ![i].minAngle = configuredServos'[i].minAngle,
                    ![i].maxAngle = configuredServos'[i].maxAngle]
            /\ servoChannelUsed' = servoChannelUsed
            /\ io' = {}
            /\ response'.status = "OK"]_vars

\* C31, its case: the lower bound was raised above the angle of a move that
\* is still pending under its commandId
C31_BoundsChangedDuringMove ==
  \E i \in 1..Len(configuredServos) :
    /\ configuredServos[i].attached
    /\ configuredServos[i].isActionPending
    /\ configuredServos[i].pendingCommandId \in CmdIds
    /\ configuredServos[i].currentAngle = 95
    /\ configuredServos[i].minAngle = 100
    /\ io = {}


\* C32: a configure request for a registered stepper id takes over the
\* limits and the homing sensor the request names, keeps the engine handle,
\* leaves the engines as they are (no move, no stop, same position) and
\* leaves isActionPending, isHoming, isHomed and pendingCommandId unchanged.
C32_ReconfigureUpdatesInPlace ==
  [][\A id \in HomingProfile.ids, pul \in HomingProfile.pulPins,
        dir \in HomingProfile.dirPins, lim \in HomingProfile.limits,
        u \in UninitStepperFields, h \in HomingProfile.sensors \ {NoId} :
       LET ex == findStepperById(id) IN
       (/\ ex # 0
        /\ StepperConfigure(id, TRUE, pul, dir, lim[1], lim[2], u,
                            HomingProfile.engines, h))
         => /\ configuredSteppers'[ex].minPosition = lim[1]
            /\ configuredSteppers'[ex].maxPosition = lim[2]
            /\ configuredSteppers'[ex].homeSensorId = h
            /\ configuredSteppers'[ex].stepper = configuredSteppers[ex].stepper
            /\ engines' = engines
            /\ configuredSteppers'[ex].isActionPending
                 = configuredSteppers[ex].isActionPending
            /\ configuredSteppers'[ex].isHoming
                 = configuredSteppers[ex].isHoming
            /\ configuredSteppers'[ex].isHomed
                 = configuredSteppers[ex].isHomed
            /\ configuredSteppers'[ex].pendingCommandId
                 = configuredSteppers[ex].pendingCommandId]_vars


\* C33: a setCurrentPosition request with value p leaves the engine
\* position, currentPosition and targetPosition at p and isActionPending
\* false, and commands no motion: the engine runs or rests as before, with
\* the same distance left to go.
C33_SetCurrentPositionResyncs ==
  [][\A id \in ResyncProfile.ids,
        p \in ResyncProfile.newPositions \ {NoKey} :
       LET i == findStepperById(id) IN
       (i # 0 /\ StepperSetCurrentPosition(id, p))
         => LET st == configuredSteppers'[i]
                e0 == engines[configuredSteppers[i].stepper]
                e1 == engines'[st.stepper]
            IN  /\ e1.pos = p
                /\ st.currentPosition = p
                /\ st.targetPosition = p
                /\ ~st.isActionPending
                /\ e1.running = e0.running
                /\ e1.target - e1.pos = e0.target - e0.pos]_vars

\* C33, its case: the position was set to 2 while a move was on its way, and
\* the new position has been broadcast
C33_PositionSetDuringMove ==
  \E i \in 1..Len(configuredSteppers) :
    LET st == configuredSteppers[i]
        e  == engines[st.stepper]
    IN  /\ e.running
        /\ e.pos = 2
        /\ e.target # 2
        /\ st.currentPosition = 2
        /\ st.targetPosition = 2
        /\ ~st.isActionPending
        /\ io = {Io("position", st.id, 2)}


\* the registered servos that hold channel c
Owners(c) == {i \in 1..Len(configuredServos) : configuredServos[i].channel = c}

\* C34: the channel pool and the registry agree: a channel is marked used
\* exactly when one registered servo holds it (none is leaked, none is held
\* while marked free, none is held twice).
C34_PoolAgreesWithRegistry ==
  \A c \in 0..(MAX_SERVO_CHANNELS - 1) :
    servoChannelUsed[c] <=> Cardinality(Owners(c)) = 1


\* C35: a servo or stepper that stores a commandId has an action pending.
C35_CommandIdOnlyWhilePending ==
  /\ \A i \in 1..Len(configuredServos) :
       configuredServos[i].pendingCommandId # NoId
         => configuredServos[i].isActionPending
  /\ \A i \in 1..Len(configuredSteppers) :
       configuredSteppers[i].pendingCommandId # NoId
         => configuredSteppers[i].isActionPending


\* a move under commandId d has been accepted for the stepper that still
\* owed the completion of the accepted command c
Superseded(c, d) ==
  /\ issued[c].accepted
  /\ issued[d].accepted
  /\ EventCount(events, c) = 0
  /\ \E i \in 1..Len(configuredSteppers) :
       /\ configuredSteppers[i].id = issued[c].comp
       /\ configuredSteppers[i].id = issued[d].comp
       /\ configuredSteppers[i].isActionPending
       /\ configuredSteppers[i].pendingCommandId = d

\* C36: when a move with commandId d is accepted while the move with
\* commandId c is still pending on the same stepper, c and d each receive
\* exactly one actionComplete event.
C36_BothCommandsComplete ==
  /\ \A c, d \in CmdIds :
       (c # d /\ Superseded(c, d))
         ~> (EventCount(events, c) = 1 /\ EventCount(events, d) = 1)
  /\ [](\A c \in CmdIds : EventCount(events, c) <= 1)


\* C37: a stepper that is homing has an action pending.
C37_HomingImpliesPending ==
  \A i \in 1..Len(configuredSteppers) :
    configuredSteppers[i].isHoming => configuredSteppers[i].isActionPending


PositionUpdates(msgs, id) == {m \in msgs : m.kind = "position" /\ m.id = id}

\* C39: position updates of one stepper are at least
\* stepperPositionReportInterval apart: no request and no loop pass
\* broadcasts two of them, and when a request or loop pass broadcasts one
\* right after another one did (io holds the earlier broadcast, also across
\* steps of the engine), the clock has advanced by the interval in between.
C39_PositionUpdatesRateLimited ==
  [][\A id \in ResyncProfile.ids :
       ~Motion =>
         /\ Cardinality(PositionUpdates(io', id)) <= 1
         /\ (PositionUpdates(io, id) # {} /\ PositionUpdates(io', id) # {})
              => USub(now', now) >= stepperPositionReportInterval]_vars


\* C40: the lastValue of an input pin is the value of the latest value event
\* broadcast for it: a step that leaves an input pin registered and changes
\* its lastValue broadcasts a value event that carries the new lastValue.
C40_LastValueIsLastEvent ==
  [][\A i \in 1..Len(configuredPins) :
       (/\ i <= Len(configuredPins')
        /\ configuredPins'[i].id = configuredPins[i].id
        /\ configuredPins[i].mode = "input"
        /\ configuredPins'[i].mode = "input"
        /\ configuredPins'[i].lastValue # configuredPins[i].lastValue)
         => \E m \in PinValueEvents(io', configuredPins[i].id) :
              m.value = configuredPins'[i].lastValue]_vars

====
